---- MODULE Spec2Model ----
(***************************************************************************)
(* Model of autodebugger's adaptive logging pipeline:                      *)
(*   - RotatingWriter / RotatingWriterWrapper / RotatingWriterGuard        *)
(*     (src/src/rotating_file_logger.rs)                                   *)
(*   - VerbosityCheckLayer (src/src/tracing_subscriber.rs)                 *)
(* The file system is modelled as a directory of names bound to inodes;    *)
(* every OS call the writer makes may succeed or fail.                     *)
(***************************************************************************)
EXTENDS Integers, Sequences, FiniteSets, TLC

\* ------------------------------------------------------------------ bounds
\* Largest max_files value of the explored configurations.
MaxFilesCfg == 3
\* Number of threads emitting lines through clones of the writer handle.
NThreads == 2
\* Number of lines (events) the threads emit in all.
MaxEmits == 4
\* Number of OS calls that misbehave (fail, or accept only part of a buffer).
MaxFaults == 1

\* Number of events delivered to the VerbosityCheckLayer.
MaxEvents == 52
\* Number of those events at each severity other than INFO.
MaxOtherEvents == 1

\* Number of sessions (runs of the program) that initialize a writer for the
\* same directory and file name.
MaxSessions == 3
\* Ticks of the clock in a second.
TicksPerSecond == 2

\* --------------------------------------------------------------- constants
\* should_rotate: max_size_mb * 1024 * 1024
BytesPerMB == 1024 * 1024
HalfMB == BytesPerMB \div 2
\* Lengths of the formatted lines handed to write().
BufLens == {1, HalfMB}
\* max_size_mb values explored (u64: zero is accepted).
MaxSizeMbs == {0, 1}

Threads == 1..NThreads
\* Name 0 is log_path (the timestamped active path of the session);
\* name i >= 1 is log_path.with_extension("log.i"), the numbered backup.
MaxIdx == MaxFilesCfg + 2
Names == 0..MaxIdx

VARIABLES
    config,        \* RotatingFileConfig: max_files, max_size_mb, truncate_on_limit, console_output
    unix,          \* build target: TRUE cfg(unix) (symlink), FALSE cfg(windows) (copy)
    session,       \* how the writer was obtained: "start" before initialization, then
                   \* "build" | "wrapper" | "pipeline" | "console_only" | "failed"
    dir_exists,    \* log_directory exists
    files,         \* directory: name -> inode number (from 1), 0 when the name is absent
    inodes,        \* inode number -> [data, size, rotated]: the pieces written, the length in
                   \* bytes, and the ordinal of the rotation that moved the file to .1
    latest,        \* {base}_latest.log: none | symlink to a name | copy of data
    current_file,  \* RotatingWriter.current_file: inode of the open handle, 0 when there is no writer
    current_size,  \* RotatingWriter.current_size
    owner,         \* Mutex<RotatingWriter>: holding thread, 0 when free
    pc,            \* per thread: position in write_all -> RotatingWriterGuard::write -> RotatingWriter::write
    buf,           \* per thread: the line being written [k, rem, len]
    ret,           \* per thread: what the last RotatingWriter::write returned
    rot_i,         \* loop variable i of rotate()
    emitted,       \* per thread: number of lines (events) emitted so far
    faults,        \* number of OS calls that may still misbehave (fail, or accept part of a buffer)
    io_error,      \* some OS call returned an error
    short_write,   \* some File::write accepted only part of its buffer
    rot_started,   \* number of times the active file was renamed to .1
    rot_ok,        \* number of rotate() calls that returned Ok
    pre_rot,       \* inode and content of the active file when rotate() began in the write
                   \* call in progress (or the last one); file 0 when that call did not rotate
    warned,        \* number of tracing::warn! events the writer emitted
    guard,         \* RotatingFileGuard: [state: none | held | dropped, file, size], with the
                   \* open file and its size at the time the guard was dropped
    layers,        \* the layers of the subscriber installed as the global default
    console,       \* number of events the console layer has written
    offered,       \* by level: number of events the program has emitted, whether or not
                   \* the subscriber's filter let them through
    \* VerbosityCheckLayer
    configured_level, \* VerbosityCheckLayer.configured_level
    verbosity,        \* config.verbosity: info_threshold, debug_threshold, trace_threshold
    counts,           \* the five AtomicUsize counters, by level
    delivered,        \* by level: number of on_event calls made with an event of that level
    chk,              \* the running check_verbosity(): position, values loaded so far
    result,           \* what the last check_verbosity() / check_and_report() returned
    env,              \* what the layer is constructed from: [rust_log, default_level], the
                      \* RUST_LOG variable and the default_level argument of init_logging
    \* the clock and the sessions before the present one
    now,              \* chrono::Local::now(), in ticks of a fraction of a second; the names
                      \* of `files` are those of the paths stamped with the present second
    earlier,          \* the sessions that have ended: [stamp, file, data], the timestamp
                      \* in the session's path, the inode of its log file and what the
                      \* file held when the session ended
    \* ConditionalLocationFormatter
    event,            \* the event given to format_event: level, target, file, line, scope, fields
    formatted         \* what format_event wrote to the writer, as a sequence of strings

\* The variables of the VerbosityCheckLayer.
\* The variables of the ConditionalLocationFormatter.
fvars == <<event, formatted>>

gvars == <<configured_level, verbosity, counts, delivered, chk, result, env, now, earlier,
           fvars>>

\* The variables of the writer, its file system and its threads.
wvars == <<config, unix, session, dir_exists, files, inodes, latest, current_file,
           current_size, owner, pc, buf, ret, rot_i, emitted, faults, io_error,
           short_write, rot_started, rot_ok, pre_rot, warned, guard, layers, console,
           offered, env, now, earlier, fvars>>

\* The variables of the VerbosityCheckLayer that no event changes.
gfixed == <<configured_level, verbosity, chk, result, env, now, earlier, fvars>>

vars == <<wvars, gvars>>

\* ----------------------------------------------------------------- helpers
\* A file's data is the sequence of the pieces written to it, a piece
\* <<thread, line, nbytes, linelen>> being nbytes bytes of line number `line`
\* of `thread`, which is linelen bytes long. It is kept as a sequence of
\* extents <<thread, line, nbytes, linelen, count>>: count pieces, each a whole
\* line, of the lines line .. line + count - 1 of the thread.
WritePiece(d, t, k, written, len) ==
    IF /\ d # << >>
       /\ written = len
       /\ d[Len(d)][1] = t
       /\ d[Len(d)][3] = written /\ d[Len(d)][4] = len
       /\ d[Len(d)][2] + d[Len(d)][5] = k
    THEN [d EXCEPT ![Len(d)][5] = @ + 1]
    ELSE Append(d, <<t, k, written, len, 1>>)

RECURSIVE Pieces(_)
\* The pieces of data d, in the order they were written.
Pieces(d) ==
    IF d = << >> THEN << >>
    ELSE LET e == d[Len(d)]
         IN  Pieces(SubSeq(d, 1, Len(d) - 1)) \o
             [j \in 1..e[5] |-> <<e[1], e[2] + j - 1, e[3], e[4]>>]

NewFile == [data |-> << >>, size |-> 0, rotated |-> 0]
Exists(n) == files[n] # 0
DataOf(n) == inodes[files[n]].data
FileSize(n) == inodes[files[n]].size
Backups == {i \in 1..MaxIdx : Exists(i)}
NoBuf == [k |-> 0, rem |-> 0, len |-> 0, level |-> "none"]
NoRet == <<"none", 0>>
NoLink == [kind |-> "none"]
\* No rotate() was entered by the write call in progress (or the last one).
NoRotation == [file |-> 0, data |-> << >>]
NoGuard == [state |-> "none", file |-> 0, size |-> 0]
CanFault == faults > 0
RECURSIVE SumTo(_, _)
SumTo(f, n) == IF n = 0 THEN 0 ELSE f[n] + SumTo(f, n - 1)
\* Lines emitted so far by all threads.
TotalEmitted == SumTo(emitted, NThreads)

Configs ==
    [max_files : 0..MaxFilesCfg, max_size_mb : MaxSizeMbs,
     truncate_on_limit : BOOLEAN, console_output : {TRUE}]

\* The configured limit in bytes: max_size_mb * 1024 * 1024
Limit == config.max_size_mb * BytesPerMB

\* A size check that lets a write through at exactly the limit.
should_rotate_above == current_size > Limit
\* should_rotate(): current_size >= max_size_mb * 1024 * 1024
should_rotate == current_size >= Limit

\* Path::exists() on the latest path follows a symlink to its target. (Kind
\* "old" is a symlink to the existing log file of an earlier second.)
LatestExists ==
    \/ latest.kind \in {"copy", "old"}
    \/ latest.kind = "symlink" /\ files[latest.target] # 0

\* update_latest_symlink(): the possible outcomes [l, warn, fault], given the
\* directory f and inode table ino at the time of the call.
\* remove_file fails -> warn, return Ok; symlink/copy fails -> warn.
update_latest_symlink(f, ino) ==
    LET exists == \/ latest.kind \in {"copy", "old"}
                  \/ latest.kind = "symlink" /\ f[latest.target] # 0
        created == IF unix
                   THEN [kind |-> "symlink", target |-> 0]
                   ELSE [kind |-> "copy", data |-> ino[f[0]].data]
        \* symlink() refuses an existing entry (a symlink whose target is gone
        \* is not seen by exists() and is still in the way); copy overwrites,
        \* and needs the source to exist
        blocked == IF unix THEN (~exists /\ latest.kind # "none") ELSE f[0] = 0
        removeFails == IF exists /\ CanFault
                       THEN {[l |-> latest, warn |-> 1, fault |-> 1]} ELSE {}
        createFails == IF CanFault /\ ~blocked
                       THEN {[l |-> NoLink, warn |-> 1, fault |-> 1]} ELSE {}
        createDone == IF blocked
                      THEN {[l |-> IF exists THEN NoLink ELSE latest, warn |-> 1, fault |-> 0]}
                      ELSE {[l |-> created, warn |-> 0, fault |-> 0]}
    IN  removeFails \cup createFails \cup createDone

\* ------------------------------------------------- VerbosityCheckLayer
Levels == {"ERROR", "WARN", "INFO", "DEBUG", "TRACE"}
\* The order in which total_count() adds the counters.
LevelSeq == <<"ERROR", "WARN", "INFO", "DEBUG", "TRACE">>
ZeroCounts == [l \in Levels |-> 0]
NoneV == <<"None">>
NoCheck == [pc |-> "idle", api |-> "none", total |-> 0, dirty |-> FALSE]
NoResult == [api |-> "none", value |-> NoneV, clean |-> TRUE, events |-> 0]

\* config.rs: default_info_threshold, default_debug_threshold, default_trace_threshold
default_info_threshold == 50
default_debug_threshold == 100
default_trace_threshold == 200
\* VerbosityConfig::default(), and a custom VerbosityConfig with low thresholds.
VerbosityConfigs ==
    { [info_threshold |-> default_info_threshold,
       debug_threshold |-> default_debug_threshold,
       trace_threshold |-> default_trace_threshold],
      [info_threshold |-> 1, debug_threshold |-> 2, trace_threshold |-> 3] }

\* A string is the sequence of its characters.
Str_trace == <<"t", "r", "a", "c", "e">>
Str_debug == <<"d", "e", "b", "u", "g">>
Str_info == <<"i", "n", "f", "o">>
Str_warn == <<"w", "a", "r", "n">>
Str_error == <<"e", "r", "r", "o", "r">>

\* char::to_lowercase, on the letters that occur in the strings used
LowerChar(c) ==
    CASE c = "T" -> "t" [] c = "R" -> "r" [] c = "A" -> "a" [] c = "C" -> "c"
      [] c = "E" -> "e" [] c = "D" -> "d" [] c = "B" -> "b" [] c = "U" -> "u"
      [] c = "G" -> "g" [] c = "I" -> "i" [] c = "N" -> "n" [] c = "F" -> "f"
      [] c = "O" -> "o" [] c = "W" -> "w"
      [] OTHER -> c
\* str::to_lowercase
to_lowercase(str) == [j \in 1..Len(str) |-> LowerChar(str[j])]
\* str::contains(pattern)
contains(str, pattern) ==
    \E j \in 1..(Len(str) - Len(pattern) + 1) :
        SubSeq(str, j, j + Len(pattern) - 1) = pattern

\* detect_configured_level(): from std::env::var("RUST_LOG") alone
detect_configured_level(rust_log) ==
    IF rust_log[1] = "Ok"
    THEN LET lower == to_lowercase(rust_log[2])
         IN  IF contains(lower, Str_trace) THEN "TRACE"
             ELSE IF contains(lower, Str_debug) THEN "DEBUG"
             ELSE IF contains(lower, Str_info) THEN "INFO"
             ELSE IF contains(lower, Str_warn) THEN "WARN"
             ELSE IF contains(lower, Str_error) THEN "ERROR"
             ELSE "INFO"
    ELSE "INFO"

\* RUST_LOG is not set, and no default_level is given.
NoEnv == [rust_log |-> <<"Err">>, default_level |-> <<"None">>]

\* with_config(): the counters start at zero. (Here the layer is not in use;
\* RUST_LOG is not set.)
GovIdle ==
    /\ env = NoEnv
    /\ configured_level = "INFO"
    /\ verbosity = [info_threshold |-> default_info_threshold,
                    debug_threshold |-> default_debug_threshold,
                    trace_threshold |-> default_trace_threshold]
    /\ counts = ZeroCounts
    /\ delivered = ZeroCounts
    /\ chk = NoCheck
    /\ result = NoResult

\* An update that takes one away.
fetch_sub(value, n) == value - n
\* AtomicUsize::fetch_add(n, Ordering::Relaxed): the value the counter gets
fetch_add(value, n) == value + n

\* A match that counts WARN events as errors.
counter_of_swapped(level) == IF level = "WARN" THEN "ERROR" ELSE level
\* on_event: the counter the match on the event's level selects
counter_of(level) == level

\* ------------------------------------------------------- the subscriber
\* init_logging_with_file, file branch:
\* registry().with(env_filter).with(console_layer).with(file_layer).with(verbosity_layer)
pipeline_layers == {"env_filter", "console", "file", "verbosity"}
\* A fallback that installs nothing.
fallback_layers_none == {}
\* init_logging_with_file, Err branch: the console-only subscriber
fallback_layers == {"env_filter", "console", "verbosity"}
\* RotatingFileLogger::initialize and RotatingWriterWrapper::new install nothing.
InstalledLayers(entry, ok) ==
    IF entry = "pipeline" THEN (IF ok THEN pipeline_layers ELSE fallback_layers) ELSE {}

\* create_base_env_filter: the directive string the filter is built from is
\* RUST_LOG when set, otherwise default_level, "info" when that is not given.
ActiveDirective ==
    IF env.rust_log[1] = "Ok" THEN env.rust_log[2]
    ELSE IF env.default_level[1] = "Some" THEN env.default_level[2]
    ELSE Str_info

\* tracing::Level, by verbosity: what a filter at level L lets through is the
\* levels up to L.
LevelNo(level) ==
    CASE level = "ERROR" -> 1 [] level = "WARN" -> 2 [] level = "INFO" -> 3
      [] level = "DEBUG" -> 4 [] level = "TRACE" -> 5
\* The most verbose level a directive that is one level word enables (the
\* word is matched without regard to case); none for any other word ("off").
max_level(directive) ==
    LET lower == to_lowercase(directive)
    IN  CASE lower = Str_error -> 1 [] lower = Str_warn -> 2 [] lower = Str_info -> 3
          [] lower = Str_debug -> 4 [] lower = Str_trace -> 5
          [] OTHER -> 0

\* A filter that lets every event through.
Admits_all(level) == TRUE
\* The env_filter layer, first in registry().with(env_filter)...: it decides
\* for the whole subscriber whether an event of the program's own target is
\* enabled. (The added directives sled=warn, ... concern other targets.)
Admits(level) == LevelNo(level) <= max_level(ActiveDirective)

\* The threads emit their lines with info!.
EventLevel == "INFO"
\* The console layer, where installed, writes every event it is given.
ToConsole == IF "console" \in layers THEN 1 ELSE 0
\* The verbosity layer, where installed, is given the event: on_event.
Record(level) ==
    IF "verbosity" \in layers
    THEN /\ counts' = [counts EXCEPT ![counter_of(level)] = fetch_add(@, 1)]
         /\ delivered' = [delivered EXCEPT ![level] = @ + 1]
    ELSE UNCHANGED <<counts, delivered>>
\* The layers are called in order: the verbosity layer gets thread t's event
\* when the file layer's write_all is over (pc back to idle), whatever its result.
Dispatched(t) ==
    IF pc'[t] = "idle" THEN Record(buf[t].level) ELSE UNCHANGED <<counts, delivered>>

\* The Arc<Mutex<RotatingWriter>> is held by the guard, by the file layer of
\* the installed subscriber, and by the clones the threads use directly.
Holders(guard_state) ==
    (IF guard_state = "held" THEN 1 ELSE 0)
    + (IF "file" \in layers THEN 1 ELSE 0)
    + (IF session = "wrapper" THEN NThreads ELSE 0)

\* ------------------------------------------ ConditionalLocationFormatter
NoEvent == [level |-> "none"]
NoneS == <<"None">>

\* A formatter that shows the location at every level that has a label.
shows_location_always(level) == TRUE
\* format_event: matches!(level, &Level::ERROR | &Level::WARN)
shows_location(level) == level \in {"ERROR", "WARN"}

RECURSIVE format_scope(_, _)
\* format_event, the loop over scope.from_root(): the span names joined by
\* ":", each followed by its formatted fields in braces when it has any.
format_scope(spans, first) ==
    IF spans = << >> THEN << >>
    ELSE (IF first THEN << >> ELSE <<":">>)
         \o <<spans[1].name>>
         \o (IF spans[1].fields # "" THEN <<"{", spans[1].fields, "}">> ELSE << >>)
         \o format_scope(Tail(spans), FALSE)

\* ConditionalLocationFormatter::format_event: what is written for event e.
format_event(e) ==
    (IF e.level # "INFO"
     THEN <<e.level>>
          \o (IF shows_location(e.level)
              THEN <<" ", e.target>>
                   \o (IF e.file[1] = "Some" /\ e.line[1] = "Some"
                       THEN <<" ", e.file[2], ":", e.line[2]>>
                       ELSE << >>)
              ELSE << >>)
          \o <<": ">>
     ELSE << >>)
    \o (IF e.scope[1] = "Some"
        THEN format_scope(e.scope[2], TRUE) \o <<" ">>
        ELSE << >>)
    \o <<e.fields>>
    \o <<"\n">>

\* ------------------------------------------------------------------- Init
\* Before initialization: no directory, no file, no writer; `budget` OS calls
\* may misbehave.
WriterStart(cfgs, budget) ==
    /\ config \in cfgs
    /\ session = "start"
    /\ dir_exists = FALSE
    /\ files = [n \in Names |-> 0]
    /\ inodes = << >>
    /\ latest = NoLink
    /\ current_file = 0
    /\ current_size = 0
    /\ owner = 0
    /\ pc = [t \in Threads |-> "idle"]
    /\ buf = [t \in Threads |-> NoBuf]
    /\ ret = [t \in Threads |-> NoRet]
    /\ rot_i = 0
    /\ emitted = [t \in Threads |-> 0]
    /\ faults = budget
    /\ io_error = FALSE
    /\ short_write = FALSE
    /\ rot_started = 0
    /\ rot_ok = 0
    /\ pre_rot = NoRotation
    /\ warned = 0
    /\ guard = NoGuard
    /\ layers = {}
    /\ console = 0
    /\ offered = ZeroCounts
    /\ now = 0
    /\ earlier = << >>
    /\ formatted = << >>

Init ==
    /\ WriterStart(Configs, MaxFaults)
    /\ event = NoEvent
    /\ unix \in BOOLEAN
    /\ GovIdle

\* ------------------------------------------------------- initialization
\* The entry points: RotatingFileLoggerBuilder::build ("build"),
\* RotatingWriterWrapper::new used directly as a writer ("wrapper"),
\* init_logging_with_file with a file_config ("pipeline").
Entries == {"build", "wrapper", "pipeline"}

\* fs::create_dir_all fails, or the open in RotatingWriter::new fails: an IO
\* error for build / RotatingWriterWrapper::new; init_logging_with_file falls
\* back to the console-only subscriber.
InitializeFails(entry) ==
    /\ session = "start"
    /\ CanFault
    /\ faults' = faults - 1
    /\ io_error' = TRUE
    /\ dir_exists' \in BOOLEAN
    /\ session' = IF entry = "pipeline" THEN "console_only" ELSE "failed"
    /\ layers' = InstalledLayers(entry, FALSE)
    /\ UNCHANGED <<gvars, offered, guard, console, config, unix, files, inodes, latest, current_file, current_size,
                   owner, pc, buf, ret, rot_i, emitted, short_write, rot_started,
                   rot_ok, pre_rot, warned>>

\* create_dir_all, then RotatingWriter::new: log_path is the file name
\* stamped with the present second (name 0); open it with
\* create+write+truncate, which empties a file already at that path;
\* current_size = metadata().len(), then update_latest_symlink() with its
\* result ignored.
InitializeOk(entry) ==
    /\ session = "start"
    /\ dir_exists' = TRUE
    /\ LET ino == IF Exists(0)
                  THEN [inodes EXCEPT ![files[0]] = [@ EXCEPT !.data = << >>, !.size = 0]]
                  ELSE Append(inodes, NewFile)
           n == IF Exists(0) THEN files[0] ELSE Len(ino)
           f == [files EXCEPT ![0] = n]
       IN  /\ inodes' = ino
           /\ files' = f
           /\ current_file' = n
           /\ current_size' = ino[n].size
           /\ \E o \in update_latest_symlink(f, ino) :
                /\ latest' = o.l
                /\ warned' = warned + o.warn
                /\ faults' = faults - o.fault
                /\ io_error' = (io_error \/ o.fault = 1)
    /\ session' = entry
    /\ layers' = InstalledLayers(entry, TRUE)
    /\ guard' = IF entry \in {"build", "pipeline"} THEN [NoGuard EXCEPT !.state = "held"] ELSE NoGuard
    /\ UNCHANGED <<gvars, offered, console, config, unix, owner, pc, buf, ret, rot_i, emitted, short_write,
                   rot_started, rot_ok, pre_rot>>

Initialize == \E entry \in Entries : InitializeFails(entry) \/ InitializeOk(entry)

\* ------------------------------------------------------------ the threads
\* An event is emitted while no file sink is attached: after build() (which
\* installs no subscriber and keeps the writer private to the guard) and in
\* the console-only fallback. Nothing reaches the writer.
EmitNoFileSink(t) ==
    /\ session \in {"build", "console_only", "console"}
    /\ pc[t] = "idle"
    /\ TotalEmitted < MaxEmits
    /\ emitted' = [emitted EXCEPT ![t] = @ + 1]
    /\ console' = console + ToConsole
    /\ offered' = [offered EXCEPT ![EventLevel] = @ + 1]
    /\ Record(EventLevel)
    /\ UNCHANGED <<gfixed, guard, layers, config, unix, session, dir_exists, files, inodes, latest,
                   current_file, current_size, owner, pc, buf, ret, rot_i, faults,
                   io_error, short_write, rot_started, rot_ok, pre_rot, warned>>

\* A formatted line of len bytes is handed to make_writer() and written with
\* write_all, which calls RotatingWriterGuard::write until the line is through.
EmitToFile(t, len) ==
    /\ session \in {"wrapper", "pipeline"}
    /\ pc[t] = "idle"
    /\ TotalEmitted < MaxEmits
    /\ emitted' = [emitted EXCEPT ![t] = @ + 1]
    /\ buf' = [buf EXCEPT ![t] = [k |-> emitted[t] + 1, rem |-> len, len |-> len,
                                  level |-> EventLevel]]
    /\ pc' = [pc EXCEPT ![t] = "lock"]
    /\ console' = console + ToConsole
    /\ offered' = [offered EXCEPT ![EventLevel] = @ + 1]
    /\ UNCHANGED <<gvars, guard, layers, config, unix, session, dir_exists, files, inodes, latest,
                   current_file, current_size, owner, ret, rot_i, faults, io_error,
                   short_write, rot_started, rot_ok, pre_rot, warned>>

\* The program emits an event of the given level (error!, ..., trace!) while
\* a subscriber built by init_logging / init_logging_with_file is installed.
\* A disabled event reaches no layer. An enabled one is given to the layers
\* in order: the console layer writes it, the file layer (if any) hands the
\* formatted line of len bytes to its writer, and the verbosity layer counts
\* it when the layers before it are done.
EmitEvent(t, level, len) ==
    /\ "env_filter" \in layers
    /\ pc[t] = "idle"
    /\ TotalEmitted < MaxEmits
    /\ emitted' = [emitted EXCEPT ![t] = @ + 1]
    /\ offered' = [offered EXCEPT ![level] = @ + 1]
    /\ IF ~Admits(level)
       THEN UNCHANGED <<console, buf, pc, counts, delivered>>
       ELSE /\ console' = console + ToConsole
            /\ IF "file" \in layers
               THEN /\ buf' = [buf EXCEPT ![t] = [k |-> emitted[t] + 1, rem |-> len,
                                                  len |-> len, level |-> level]]
                    /\ pc' = [pc EXCEPT ![t] = "lock"]
                    /\ UNCHANGED <<counts, delivered>>
               ELSE /\ Record(level)
                    /\ UNCHANGED <<buf, pc>>
    /\ UNCHANGED <<gfixed, guard, layers, config, unix, session, dir_exists, files, inodes, latest,
                   current_file, current_size, owner, ret, rot_i, faults, io_error,
                   short_write, rot_started, rot_ok, pre_rot, warned>>

\* Where a thread may go after the writer emitted a tracing::warn! while the
\* mutex is held. In the pipeline the warning is an event of the subscriber
\* that is in the middle of dispatching: either the dispatcher hands it to the
\* layers, and the file layer's RotatingWriterGuard::write locks the same
\* mutex again ("relock": the thread waits for a mutex it holds itself), or
\* the dispatcher refuses to be re-entered and drops it, and the writer
\* carries on, as it does when the warning goes elsewhere.
AfterWarn(next) == IF session = "pipeline" THEN {"relock", next} ELSE {next}

\* rotate(): the range (1..max_files).rev() starts at max_files - 1
ChainStart == config.max_files - 1
\* A test that lets the backup at max_files - 1 be moved up.
AtMax_late(i) == i >= config.max_files
\* rotate(): i + 1 >= max_files, the oldest backup is deleted instead of moved
AtMax(i) == i + 1 >= config.max_files

\* RotatingWriterGuard::write returns r: the MutexGuard is dropped, and
\* write_all stops on an error, calls write again with the rest of the line
\* after a short count, and is done when the whole line was accepted.
Return(t, r) ==
    /\ ret' = [ret EXCEPT ![t] = r]
    /\ owner' = 0
    /\ IF r[1] = "Ok" /\ r[2] < buf[t].rem
       THEN /\ buf' = [buf EXCEPT ![t].rem = @ - r[2]]
            /\ pc' = [pc EXCEPT ![t] = "lock"]
       ELSE /\ buf' = [buf EXCEPT ![t] = NoBuf]
            /\ pc' = [pc EXCEPT ![t] = "idle"]

\* A lock that lets every caller in.
lock_open == TRUE
\* self.writer.lock() returns when no thread holds the mutex
lock_free == owner = 0

\* RotatingWriterGuard::write: self.writer.lock(), then RotatingWriter::write
\* up to the size check: at the limit, truncate mode warns and returns
\* Ok(buf.len()) without writing; archive mode starts rotate(), whose first
\* step, File::flush, does nothing and cannot fail.
Check(t) ==
    /\ pc[t] = "lock"
    /\ lock_free
    /\ IF should_rotate
       THEN IF config.truncate_on_limit
            THEN /\ warned' = warned + 1
                 /\ \E n \in AfterWarn("return") :
                       IF n = "relock"
                       THEN /\ owner' = t
                            /\ pc' = [pc EXCEPT ![t] = n]
                            /\ UNCHANGED <<ret, buf>>
                       ELSE Return(t, <<"Ok", buf[t].rem>>)
                 /\ pre_rot' = NoRotation
                 /\ UNCHANGED rot_i
            ELSE /\ owner' = t
                 /\ rot_i' = ChainStart
                 /\ pre_rot' = [file |-> current_file, data |-> inodes[current_file].data]
                 /\ pc' = [pc EXCEPT ![t] = IF ChainStart >= 1 THEN "rot_chain" ELSE "rot_rename"]
                 /\ UNCHANGED <<warned, ret, buf>>
       ELSE /\ owner' = t
            /\ pc' = [pc EXCEPT ![t] = "file_write"]
            /\ pre_rot' = NoRotation
            /\ UNCHANGED <<warned, ret, buf, rot_i>>
    /\ UNCHANGED <<gfixed, guard, layers, console, offered, config, unix, session, dir_exists, files, inodes, latest,
                   current_file, current_size, emitted, faults, io_error,
                   short_write, rot_started, rot_ok>>
    /\ Dispatched(t)

\* An OS call of rotate() fails: `?` returns the error from rotate() and from
\* write(); nothing else is changed.
RotateStepFails(t) ==
    /\ Return(t, <<"Err", 0>>)
    /\ io_error' = TRUE

\* rotate(), one iteration of the loop over the numbered files: if .i exists
\* it is removed (i + 1 >= max_files) or renamed to .(i+1).
RotChain(t) ==
    /\ pc[t] = "rot_chain"
    /\ LET i == rot_i
           nextpc == IF i - 1 >= 1 THEN "rot_chain" ELSE "rot_rename"
       IN  \/ /\ ~Exists(i)
              /\ rot_i' = i - 1
              /\ pc' = [pc EXCEPT ![t] = nextpc]
              /\ UNCHANGED <<files, faults, io_error, ret, owner, buf>>
           \/ /\ Exists(i)
              /\ files' = IF AtMax(i)
                          THEN [files EXCEPT ![i] = 0]
                          ELSE [files EXCEPT ![i + 1] = files[i], ![i] = 0]
              /\ rot_i' = i - 1
              /\ pc' = [pc EXCEPT ![t] = nextpc]
              /\ UNCHANGED <<faults, io_error, ret, owner, buf>>
           \/ /\ Exists(i)
              /\ CanFault
              /\ faults' = faults - 1
              /\ RotateStepFails(t)
              /\ UNCHANGED <<files, rot_i>>
    /\ UNCHANGED <<gfixed, guard, layers, console, offered, config, unix, session, dir_exists, inodes, latest, current_file,
                   current_size, emitted, short_write, rot_started,
                   rot_ok, pre_rot, warned>>
    /\ Dispatched(t)

\* A backup path that is off by one.
backup_path_next == 1 + 1
\* rotate(): backup_path = self.log_path.with_extension("log.1")
backup_path == 1

\* rotate(): fs::rename(&self.log_path, &backup_path).
\* It fails when log_path is gone (an earlier rotation renamed it and could
\* not reopen it) or when the OS refuses.
RotRename(t) ==
    /\ pc[t] = "rot_rename"
    /\ \/ /\ Exists(0)
          /\ files' = [files EXCEPT ![backup_path] = files[0], ![0] = 0]
          /\ inodes' = [inodes EXCEPT ![files[0]].rotated = rot_started + 1]
          /\ rot_started' = rot_started + 1
          /\ pc' = [pc EXCEPT ![t] = "rot_open"]
          /\ UNCHANGED <<faults, io_error, ret, owner, buf>>
       \/ /\ Exists(0)
          /\ CanFault
          /\ faults' = faults - 1
          /\ RotateStepFails(t)
          /\ UNCHANGED <<files, inodes, rot_started>>
       \/ /\ ~Exists(0)
          /\ RotateStepFails(t)
          /\ UNCHANGED <<files, inodes, rot_started, faults>>
    /\ UNCHANGED <<gfixed, guard, layers, console, offered, config, unix, session, dir_exists, latest, current_file,
                   current_size, rot_i, emitted, short_write, rot_ok,
                   pre_rot, warned>>
    /\ Dispatched(t)

\* A reopening that keeps the old count.
reopened_size_kept == current_size
\* rotate(): self.current_size = 0
reopened_size == 0

\* rotate(): reopen log_path with create+write+truncate, current_size = 0.
RotOpen(t) ==
    /\ pc[t] = "rot_open"
    /\ \/ /\ LET ino == IF Exists(0)
                        THEN [inodes EXCEPT ![files[0]] = [@ EXCEPT !.data = << >>, !.size = 0]]
                        ELSE Append(inodes, NewFile)
                 n == IF Exists(0) THEN files[0] ELSE Len(ino)
             IN  /\ inodes' = ino
                 /\ files' = [files EXCEPT ![0] = n]
                 /\ current_file' = n
          /\ current_size' = reopened_size
          /\ rot_ok' = rot_ok + 1
          /\ pc' = [pc EXCEPT ![t] = "rot_link"]
          /\ UNCHANGED <<faults, io_error, ret, owner, buf>>
       \/ /\ CanFault
          /\ faults' = faults - 1
          /\ RotateStepFails(t)
          /\ UNCHANGED <<files, inodes, current_file, current_size, rot_ok>>
    /\ UNCHANGED <<gfixed, guard, layers, console, offered, config, unix, session, dir_exists, latest, rot_i,
                   emitted, short_write, rot_started, pre_rot, warned>>
    /\ Dispatched(t)

\* A rotate() that passes on a failure met by update_latest_symlink().
rotate_result_checked(o) == IF o.warn = 1 THEN "Err" ELSE "Ok"
\* rotate(): let _ = self.update_latest_symlink(); Ok(())
rotate_result(o) == "Ok"

\* rotate(): let _ = self.update_latest_symlink(); Ok(()), and write() goes
\* on to write the buffer.
RotLink(t) ==
    /\ pc[t] = "rot_link"
    /\ \E o \in update_latest_symlink(files, inodes) :
         /\ latest' = o.l
         /\ warned' = warned + o.warn
         /\ faults' = faults - o.fault
         /\ io_error' = (io_error \/ o.fault = 1)
         /\ IF rotate_result(o) = "Ok"
            THEN /\ \E n \in (IF o.warn = 1 THEN AfterWarn("file_write") ELSE {"file_write"}) :
                      pc' = [pc EXCEPT ![t] = n]
                 /\ UNCHANGED <<owner, buf, ret>>
            ELSE Return(t, <<"Err", 0>>)
    /\ UNCHANGED <<gfixed, guard, layers, console, offered, config, unix, session, dir_exists, files, inodes, current_file,
                   current_size, rot_i, emitted, short_write,
                   rot_started, rot_ok, pre_rot>>
    /\ Dispatched(t)

\* File::write may accept fewer bytes than it is given.
ShortLens(n) == IF n > 1 THEN {n \div 2} ELSE {}

\* An accounting by the number of bytes the caller asked to write.
size_after_request(written, requested) == current_size + requested
\* self.current_size += written as u64
size_after_write(written, requested) == current_size + written

\* RotatingWriter::write: written = self.current_file.write(buf)?;
\* self.current_size += written; Ok(written)
FileWrite(t) ==
    /\ pc[t] = "file_write"
    /\ \/ \E written \in {buf[t].rem} \cup (IF CanFault THEN ShortLens(buf[t].rem) ELSE {}) :
            /\ inodes' = [inodes EXCEPT ![current_file] =
                             [@ EXCEPT !.data = WritePiece(@, t, buf[t].k, written, buf[t].len),
                                       !.size = @ + written]]
            /\ current_size' = size_after_write(written, buf[t].rem)
            /\ Return(t, <<"Ok", written>>)
            /\ faults' = IF written < buf[t].rem THEN faults - 1 ELSE faults
            /\ short_write' = (short_write \/ written < buf[t].rem)
            /\ UNCHANGED io_error
       \/ /\ CanFault
          /\ faults' = faults - 1
          /\ io_error' = TRUE
          /\ Return(t, <<"Err", 0>>)
          /\ UNCHANGED <<inodes, current_size, short_write>>
    /\ UNCHANGED <<gfixed, guard, layers, console, offered, config, unix, session, dir_exists, files, latest, current_file,
                   rot_i, emitted, rot_started, rot_ok, pre_rot, warned>>
    /\ Dispatched(t)

\* One step of thread t.
ThreadStep(t) ==
    \/ EmitNoFileSink(t)
    \/ \E len \in BufLens : EmitToFile(t, len)
    \/ Check(t)
    \/ RotChain(t)
    \/ RotRename(t)
    \/ RotOpen(t)
    \/ RotLink(t)
    \/ FileWrite(t)

\* Several threads share the writer through clones of the handle.
Next == Initialize \/ \E t \in Threads : ThreadStep(t)

Spec == Init /\ [][Next]_vars

\* One thread drives the writer: every sequence of writes, with every outcome
\* of every OS call.
NextSeq == Initialize \/ ThreadStep(1)

SpecSeq == Init /\ [][NextSeq]_vars

\* ------------------------------------------------- the guard and the sinks
\* The RotatingFileGuard is dropped: one holder of the Arc less. When it was
\* the last, the RotatingWriter is dropped and its File closed.
DropGuard ==
    /\ guard.state = "held"
    /\ guard' = [state |-> "dropped", file |-> current_file, size |-> inodes[current_file].size]
    /\ current_file' = IF Holders("dropped") = 0 THEN 0 ELSE current_file
    /\ UNCHANGED <<gvars, offered, config, unix, session, dir_exists, files, inodes, latest,
                   current_size, owner, pc, buf, ret, rot_i, emitted, faults, io_error,
                   short_write, rot_started, rot_ok, pre_rot, warned, layers, console>>

\* with_console(enabled) sets config.console_output to either value; the
\* backup chain is kept short here.
SinkConfigs ==
    [max_files : {1, 2}, max_size_mb : MaxSizeMbs,
     truncate_on_limit : BOOLEAN, console_output : BOOLEAN]

InitSinks ==
    /\ WriterStart(SinkConfigs, MaxFaults)
    /\ event = NoEvent
    /\ unix \in BOOLEAN
    /\ GovIdle

\* One thread emits events; the holder of the guard may drop it at any time.
NextSinks == Initialize \/ ThreadStep(1) \/ DropGuard

SpecSinks == InitSinks /\ [][NextSinks]_vars

\* ------------------------------------------------ a fixed run of the writer
\* with_max_files(3), with_max_size_mb(1), archive mode; the caller writes
\* 1.5 MB in 1 KB buffers through the handle.
Scenario ==
    [config |-> [max_files |-> 3, max_size_mb |-> 1, truncate_on_limit |-> FALSE,
                 console_output |-> TRUE],
     chunk |-> 1024,
     chunks |-> 1536]

InitScenario ==
    /\ WriterStart({Scenario.config}, 0)
    /\ event = NoEvent
    /\ unix \in BOOLEAN
    /\ GovIdle

\* The caller hands the next buffer to RotatingWriterGuard::write.
EmitChunk(t) ==
    /\ session = "wrapper"
    /\ pc[t] = "idle"
    /\ emitted[t] < Scenario.chunks
    /\ emitted' = [emitted EXCEPT ![t] = @ + 1]
    /\ buf' = [buf EXCEPT ![t] = [k |-> emitted[t] + 1, rem |-> Scenario.chunk,
                                  len |-> Scenario.chunk, level |-> EventLevel]]
    /\ pc' = [pc EXCEPT ![t] = "lock"]
    /\ UNCHANGED <<gvars, guard, layers, console, offered, config, unix, session, dir_exists, files, inodes, latest,
                   current_file, current_size, owner, ret, rot_i, faults, io_error,
                   short_write, rot_started, rot_ok, pre_rot, warned>>

NextScenario ==
    \/ InitializeOk("wrapper")
    \/ EmitChunk(1)
    \/ Check(1)
    \/ RotChain(1)
    \/ RotRename(1)
    \/ RotOpen(1)
    \/ RotLink(1)
    \/ FileWrite(1)

SpecScenario == InitScenario /\ [][NextScenario]_vars

\* --------------------------------------------- VerbosityCheckLayer, actions
\* RotatingFileConfig::default()
DefaultFileConfig ==
    [max_files |-> 10, max_size_mb |-> 5, truncate_on_limit |-> TRUE, console_output |-> TRUE]

\* RUST_LOG names one level.
GovEnvs ==
    {[rust_log |-> <<"Ok", w>>, default_level |-> <<"None">>] :
        w \in {Str_trace, Str_debug, Str_info, Str_warn, Str_error}}

\* A layer is constructed for each configured level and VerbosityConfig; the
\* writer is not in use.
InitGov ==
    /\ WriterStart({DefaultFileConfig}, 0)
    /\ event = NoEvent
    /\ unix = TRUE
    /\ env \in GovEnvs
    /\ configured_level = detect_configured_level(env.rust_log)
    /\ verbosity \in VerbosityConfigs
    /\ counts = ZeroCounts
    /\ delivered = ZeroCounts
    /\ chk = NoCheck
    /\ result = NoResult

RECURSIVE SumLevels(_, _)
\* f[ERROR] + f[WARN] + f[INFO] + f[DEBUG] + f[TRACE], the first n of them
SumLevels(f, n) == IF n = 0 THEN 0 ELSE f[LevelSeq[n]] + SumLevels(f, n - 1)

\* total_count(): the sum of the five counters
total_count == SumLevels(counts, Len(LevelSeq))
\* counts_by_level(): LogCounts
counts_by_level ==
    [error |-> counts["ERROR"], warn |-> counts["WARN"], info |-> counts["INFO"],
     debug |-> counts["DEBUG"], trace |-> counts["TRACE"]]

\* on_event(event): one fetch_add(1) on the counter of the event's level.
on_event(level) ==
    /\ SumLevels(delivered, Len(LevelSeq)) < MaxEvents
    /\ level # "INFO" => delivered[level] < MaxOtherEvents
    /\ counts' = [counts EXCEPT ![counter_of(level)] = fetch_add(@, 1)]
    /\ delivered' = [delivered EXCEPT ![level] = @ + 1]
    /\ chk' = IF chk.pc = "idle" THEN chk ELSE [chk EXCEPT !.dirty = TRUE]
    /\ result' = NoResult
    /\ UNCHANGED <<wvars, configured_level, verbosity>>

\* A lookup that gives WARN the INFO threshold.
threshold_warn_checked(level) ==
    CASE level = "TRACE" -> <<"Some", verbosity.trace_threshold>>
      [] level = "DEBUG" -> <<"Some", verbosity.debug_threshold>>
      [] level \in {"INFO", "WARN"} -> <<"Some", verbosity.info_threshold>>
      [] OTHER -> <<"None", 0>>
\* check_verbosity(): the threshold of the configured level; none for WARN, ERROR
threshold(level) ==
    CASE level = "TRACE" -> <<"Some", verbosity.trace_threshold>>
      [] level = "DEBUG" -> <<"Some", verbosity.debug_threshold>>
      [] level = "INFO" -> <<"Some", verbosity.info_threshold>>
      [] OTHER -> <<"None", 0>>

\* A comparison that already warns at the threshold.
exceeds_or_equal(total, threshold_value) == total >= threshold_value
\* check_verbosity(): total > threshold_value
exceeds(total, threshold_value) == total > threshold_value

APIs == {"check_verbosity", "check_and_report"}

\* What the call returns to its caller: check_verbosity the warning,
\* check_and_report the warning formatted as the report text.
Returned(api, value) ==
    IF value = NoneV \/ api = "check_verbosity" THEN value
    ELSE <<"Some", [report |-> "LOG VERBOSITY WARNING", total_count |-> value[2].total_count,
                    threshold |-> value[2].threshold,
                    configured_level |-> value[2].configured_level,
                    counts |-> value[2].counts]>>

\* The call returns value; the events delivered so far are noted with it.
\* result is what the step just taken returned, if it returned.
Finish(api, value, dirty) ==
    result' = [api |-> api, value |-> Returned(api, value), clean |-> ~dirty,
               events |-> SumLevels(delivered, Len(LevelSeq))]

\* check_verbosity() (also as called by check_and_report()) up to its
\* comparison: the threshold lookup, which returns None at once for a level
\* with no threshold, then total_count() and total > threshold_value. The five
\* relaxed loads of total_count() are one step: the counters only grow, by one
\* at a time, so the sum they give is the total at some instant of the call.
CheckBegin(api) ==
    /\ chk.pc = "idle"
    /\ IF threshold(configured_level)[1] = "None"
       THEN /\ Finish(api, NoneV, FALSE)
            /\ UNCHANGED chk
       ELSE IF exceeds(total_count, threshold(configured_level)[2])
            THEN /\ chk' = [NoCheck EXCEPT !.pc = "counts", !.api = api,
                                           !.total = total_count]
                 /\ result' = NoResult
            ELSE /\ Finish(api, NoneV, FALSE)
                 /\ UNCHANGED chk
    /\ UNCHANGED <<wvars, configured_level, verbosity, counts, delivered>>

\* check_verbosity() from counts_by_level() on: the warning is built from the
\* total read before and the counters as they are now, and returned.
LoadCounts ==
    /\ chk.pc = "counts"
    /\ Finish(chk.api,
              <<"Some", [total_count |-> chk.total,
                         threshold |-> threshold(configured_level)[2],
                         configured_level |-> configured_level,
                         counts |-> counts_by_level]>>,
              chk.dirty)
    /\ chk' = NoCheck
    /\ UNCHANGED <<wvars, configured_level, verbosity, counts, delivered>>

NextGov ==
    \/ \E level \in Levels : on_event(level)
    \/ \E api \in APIs : CheckBegin(api)
    \/ LoadCounts

SpecGov == InitGov /\ [][NextGov]_vars

\* ------------------------------------------------------------ init_logging
\* Values of RUST_LOG: not set, or a directive string.
RustLogs ==
    { <<"Err">>,
      <<"Ok", Str_info>>, <<"Ok", Str_debug>>, <<"Ok", Str_warn>>, <<"Ok", Str_error>>,
      <<"Ok", <<"T", "R", "A", "C", "E">> >>,
      <<"Ok", <<"o", "f", "f">> >>,
      <<"Ok", <<"a", "=", "i", "n", "f", "o", ",", "d", "e", "b", "u", "g">> >>,
      <<"Ok", <<"w", "a", "r", "n", ",", "a", "=", "e", "r", "r", "o", "r">> >>,
      <<"Ok", <<"e", "r", "r", "o", "r", ",", "a", "=", "W", "a", "r", "n">> >> }
\* Values of the default_level argument.
DefaultLevels ==
    { <<"None">>, <<"Some", Str_trace>>, <<"Some", Str_debug>>, <<"Some", Str_info>>,
      <<"Some", Str_warn>>, <<"Some", Str_error>> }

\* Before init_logging: no subscriber, no layer.
InitLevel ==
    /\ WriterStart({DefaultFileConfig}, 0)
    /\ event = NoEvent
    /\ unix = TRUE
    /\ env \in [rust_log : RustLogs, default_level : DefaultLevels]
    /\ configured_level = "none"
    /\ verbosity = [info_threshold |-> default_info_threshold,
                    debug_threshold |-> default_debug_threshold,
                    trace_threshold |-> default_trace_threshold]
    /\ counts = ZeroCounts
    /\ delivered = ZeroCounts
    /\ chk = NoCheck
    /\ result = NoResult

\* init_logging: registry().with(env_filter).with(fmt::layer()).with(verbosity_layer)
logging_layers == {"env_filter", "console", "verbosity"}

\* init_logging(default_level), and init_logging_with_file(default_level, None, _):
\* VerbosityCheckLayer::new() -> with_config() -> detect_configured_level(),
\* then the subscriber is installed.
init_logging ==
    /\ session = "start"
    /\ session' = "console"
    /\ configured_level' = detect_configured_level(env.rust_log)
    /\ layers' = logging_layers
    /\ UNCHANGED <<config, unix, dir_exists, files, inodes, latest, current_file,
                   current_size, owner, pc, buf, ret, rot_i, emitted, faults, io_error,
                   short_write, rot_started, rot_ok, pre_rot, warned, guard, console,
                   offered, env, now, earlier, fvars, verbosity, counts, delivered, chk, result>>

NextLevel == init_logging \/ EmitNoFileSink(1)

SpecLevel == InitLevel /\ [][NextLevel]_vars

\* ----------------------------------------------------------- the sessions
\* chrono::Local::now().format("%Y%m%d_%H%M%S"): the timestamp has the
\* resolution of a second; the clock is read in ticks of which a second has
\* TicksPerSecond.
timestamp(ticks) == ticks \div TicksPerSecond
\* The clock is followed while two sessions can still start.
MaxNow == TicksPerSecond * (MaxSessions - 1)

\* The session ends (the process exits): the writer, the guard and the
\* subscriber are gone, the files stay.
EndSession ==
    /\ session \in {"wrapper", "build"}
    /\ \A t \in Threads : pc[t] = "idle"
    /\ Len(earlier) < MaxSessions - 1
    /\ session' = "start"
    /\ earlier' = IF current_file # 0
                  THEN Append(earlier, [stamp |-> timestamp(now), file |-> current_file,
                                        data |-> inodes[current_file].data])
                  ELSE earlier
    /\ current_file' = 0
    /\ current_size' = 0
    /\ guard' = NoGuard
    /\ layers' = {}
    /\ ret' = [t \in Threads |-> NoRet]
    /\ pre_rot' = NoRotation
    /\ UNCHANGED <<config, unix, dir_exists, files, inodes, latest, owner, pc, buf, rot_i,
                   emitted, faults, io_error, short_write, rot_started, rot_ok, warned,
                   console, offered, env, now, fvars, configured_level, verbosity, counts,
                   delivered, chk, result>>

\* Time passes while no session runs. When the second changes, the paths a
\* new session will use are new ones: none of the files on disk has them.
Tick ==
    /\ session = "start"
    /\ now < MaxNow
    /\ now' = now + 1
    /\ IF timestamp(now + 1) # timestamp(now)
       THEN /\ files' = [n \in Names |-> 0]
            /\ latest' = IF latest.kind = "symlink" /\ files[latest.target] # 0
                         THEN [kind |-> "old"] ELSE latest
       ELSE UNCHANGED <<files, latest>>
    /\ UNCHANGED <<config, unix, session, dir_exists, inodes, current_file, current_size,
                   owner, pc, buf, ret, rot_i, emitted, faults, io_error, short_write,
                   rot_started, rot_ok, pre_rot, warned, guard, layers, console, offered,
                   env, earlier, fvars, configured_level, verbosity, counts, delivered, chk,
                   result>>

\* The file configurations of the sessions.
SessionConfigs ==
    [max_files : {2}, max_size_mb : {1},
     truncate_on_limit : BOOLEAN, console_output : {TRUE}]

InitSessions ==
    /\ WriterStart(SessionConfigs, MaxFaults)
    /\ event = NoEvent
    /\ unix \in BOOLEAN
    /\ GovIdle

\* Sessions follow one another, at any distance in time; each initializes a
\* writer for the same directory and base file name and writes through it.
NextSessions ==
    \/ InitializeOk("wrapper")
    \/ \E len \in BufLens : EmitToFile(1, len)
    \/ Check(1)
    \/ RotChain(1)
    \/ RotRename(1)
    \/ RotOpen(1)
    \/ RotLink(1)
    \/ FileWrite(1)
    \/ EndSession
    \/ Tick

SpecSessions == InitSessions /\ [][NextSessions]_vars

\* ------------------------------------------------------------- the filter
\* RUST_LOG is not set or names one level; default_level names one.
FilterEnvs ==
    [rust_log : {<<"Err">>, <<"Ok", <<"D", "e", "b", "u", "g">> >>},
     default_level : {<<"Some", Str_warn>>}]

\* The file configurations of the filtered pipeline: one backup at most.
FilterConfigs ==
    [max_files : {2}, max_size_mb : {1},
     truncate_on_limit : BOOLEAN, console_output : {TRUE}]

InitFilter ==
    /\ WriterStart(FilterConfigs, MaxFaults)
    /\ event = NoEvent
    /\ unix = TRUE
    /\ env \in FilterEnvs
    /\ configured_level = detect_configured_level(env.rust_log)
    /\ verbosity = [info_threshold |-> default_info_threshold,
                    debug_threshold |-> default_debug_threshold,
                    trace_threshold |-> default_trace_threshold]
    /\ counts = ZeroCounts
    /\ delivered = ZeroCounts
    /\ chk = NoCheck
    /\ result = NoResult

\* The subscriber is installed by init_logging or by init_logging_with_file
\* with a file_config; one thread then emits events of every level.
NextFilter ==
    \/ init_logging
    \/ InitializeOk("pipeline")
    \/ InitializeFails("pipeline")
    \/ \E level \in Levels, len \in BufLens : EmitEvent(1, level, len)
    \/ Check(1)
    \/ RotChain(1)
    \/ RotRename(1)
    \/ RotOpen(1)
    \/ RotLink(1)
    \/ FileWrite(1)

SpecFilter == InitFilter /\ [][NextFilter]_vars

\* ---------------------------------------------------------- the formatter
\* The events given to the formatter: every level, with and without a known
\* file and line, outside any span and inside one or two.
Events ==
    [level : Levels,
     target : {"app"},
     file : {NoneS, <<"Some", "src/main.rs">>},
     line : {NoneS, <<"Some", "42">>},
     scope : {NoneS,
              <<"Some", <<[name |-> "request", fields |-> "id=7"]>> >>,
              <<"Some", <<[name |-> "server", fields |-> ""],
                          [name |-> "request", fields |-> "id=7"]>> >>},
     fields : {"started", "done"}]

InitFormat ==
    /\ WriterStart({DefaultFileConfig}, 0)
    /\ event \in Events
    /\ unix = TRUE
    /\ GovIdle

\* The fmt layer formats the event it is given.
FormatEvent ==
    /\ formatted = << >>
    /\ formatted' = format_event(event)
    /\ UNCHANGED <<config, unix, session, dir_exists, files, inodes, latest, current_file,
                   current_size, owner, pc, buf, ret, rot_i, emitted, faults, io_error,
                   short_write, rot_started, rot_ok, pre_rot, warned, guard, layers, console,
                   offered, env, now, earlier, event, configured_level, verbosity, counts,
                   delivered, chk, result>>

NextFormat == FormatEvent

SpecFormat == InitFormat /\ [][NextFormat]_vars

\* ================================================================== claims
FileSessions == {"build", "wrapper", "pipeline"}
WriterSessions == {"wrapper", "pipeline"}
AllIdle == \A t \in Threads : pc[t] = "idle"
MaxBufLen == CHOOSE m \in BufLens : \A x \in BufLens : x <= m

\* C1: in archive mode, for every accepted max_files, the number of numbered
\* backup files on disk never exceeds max_files.
C1_BackupsWithinMaxFiles ==
    (session \in WriterSessions /\ ~config.truncate_on_limit)
        => Cardinality(Backups) <= config.max_files

\* C2: in archive mode, right after a successful rotation (the active file was
\* renamed and reopened) backup .1 is the file that was active just before the
\* rotation, with exactly its content; and at all times, of two backups the one
\* with the higher number was rotated out earlier.
C2_BackupOneIsLastActive ==
    /\ \A t \in Threads :
         pc[t] = "rot_link" =>
            /\ Exists(1)
            /\ files[1] = pre_rot.file
            /\ DataOf(1) = pre_rot.data
    /\ \A i \in Backups, j \in Backups :
         i < j => inodes[files[j]].rotated < inodes[files[i]].rotated

\* C2 witness: a rotation has just succeeded with two backups in the chain.
C2_Witness ==
    /\ \E t \in Threads : pc[t] = "rot_link"
    /\ {1, 2} \subseteq Backups
    /\ DataOf(1) # << >>
    /\ rot_ok >= 2

\* C3 as stated: in truncate mode the on-disk size of the active file never
\* exceeds max_size_mb * 1024 * 1024.
C3_ActiveWithinLimit ==
    (session \in WriterSessions /\ config.truncate_on_limit /\ Exists(0))
        => FileSize(0) <= Limit

\* C3 amended: in truncate mode the on-disk size of the active file stays
\* below the limit plus the length of the longest buffer written (a write is
\* passed through whole whenever current_size is below the limit).
C3_ActiveWithinLimitPlusOneWrite ==
    (session \in WriterSessions /\ config.truncate_on_limit /\ Exists(0))
        => FileSize(0) < Limit + MaxBufLen

\* C3 witness: a truncate-mode active file larger than the limit.
C3_Witness ==
    /\ session \in WriterSessions
    /\ config.truncate_on_limit
    /\ Exists(0)
    /\ FileSize(0) > Limit

\* The positions of the pieces of line k of thread t in data d.
LinePositions(d, t, k) == {p \in 1..Len(d) : d[p][1] = t /\ d[p][2] = k}
RECURSIVE LineBytes(_, _, _, _)
\* The bytes of line k of thread t among the first n pieces of d.
LineBytes(d, t, k, n) ==
    IF n = 0 THEN 0
    ELSE (IF d[n][1] = t /\ d[n][2] = k THEN d[n][3] ELSE 0) + LineBytes(d, t, k, n - 1)
\* Line k of thread t is in d whole and in one run of adjacent pieces.
CompleteLine(d, t, k) ==
    LET P == LinePositions(d, t, k)
    IN  /\ P # {}
        /\ \A p \in P, q \in P : \A r \in p..q : r \in P
        /\ \A p \in P : LineBytes(d, t, k, Len(d)) = d[p][4]
LinesIn(d) == {<<d[p][1], d[p][2]>> : p \in 1..Len(d)}
\* No write found the size limit reached.
LimitNotReached == rot_started = 0 /\ ~should_rotate

\* C4: when N threads have each emitted M lines through the shared writer, no
\* OS call returned an error and the size limit was not reached, the active
\* file holds exactly N*M lines, each complete and not interleaved with another.
C4_LinesCompleteNotInterleaved ==
    \A M \in 1..MaxEmits :
        ( /\ session \in WriterSessions
          /\ AllIdle
          /\ \A t \in Threads : emitted[t] = M
          /\ ~io_error
          /\ LimitNotReached )
        => /\ Cardinality(LinesIn(Pieces(DataOf(0)))) = NThreads * M
           /\ \A l \in LinesIn(Pieces(DataOf(0))) : CompleteLine(Pieces(DataOf(0)), l[1], l[2])

\* The latest pointer leads to the file the writer's handle is open on: a
\* symlink by resolving its target name, a copy by holding the same content.
LatestResolves ==
    \/ /\ latest.kind = "symlink"
       /\ files[latest.target] # 0
       /\ files[latest.target] = current_file
    \/ /\ latest.kind = "copy"
       /\ latest.data = inodes[current_file].data

\* C8: after initialization and after any number of rotations the latest
\* pointer resolves to the currently active file (stated for the runs in which
\* no OS call misbehaved, at the points where no write is in progress).
C8_LatestResolvesToActive ==
    (session \in FileSessions /\ owner = 0 /\ faults = MaxFaults) => LatestResolves

\* C10: after build() returned Ok the directory exists and holds the log file,
\* and the message of every event emitted since is in that file.
C10_EmittedEventsInLogFile ==
    (session = "build" /\ AllIdle)
        => /\ dir_exists
           /\ Exists(0)
           /\ \A t \in Threads : \A k \in 1..emitted[t] : <<t, k>> \in LinesIn(Pieces(DataOf(0)))

\* ------------------------------------------------------ VerbosityCheckLayer
ThresholdLevels == {"INFO", "DEBUG", "TRACE"}
DeliveredTotal == SumLevels(delivered, Len(LevelSeq))

\* C5: after any interleaving of on_event calls delivering e ERROR, w WARN,
\* i INFO, d DEBUG and t TRACE events, counts_by_level() is exactly
\* (e, w, i, d, t) and total_count() is e + w + i + d + t: nothing is counted
\* twice and no increment is lost.
C5_CountsEqualDelivered ==
    /\ counts_by_level = [error |-> delivered["ERROR"], warn |-> delivered["WARN"],
                          info |-> delivered["INFO"], debug |-> delivered["DEBUG"],
                          trace |-> delivered["TRACE"]]
    /\ total_count = DeliveredTotal

\* Events of all five levels have been delivered, several of one level.
C5_Witness ==
    /\ \A l \in Levels : delivered[l] >= 1
    /\ delivered["INFO"] >= 2
    /\ chk.pc = "idle"

\* C6: with configured level INFO, DEBUG or TRACE, check_verbosity() returns a
\* warning if and only if the total count is strictly greater than the level's
\* threshold, and the warning carries a total above the threshold; with level
\* INFO and info_threshold = 50, 51 events of any mix give a warning and
\* exactly 50 give none.
C6_WarningIffAboveThreshold ==
    (result.api = "check_verbosity" /\ configured_level \in ThresholdLevels) =>
        /\ (result.value # NoneV) <=> (result.events > threshold(configured_level)[2])
        /\ result.value # NoneV =>
              /\ result.value[2].total_count > result.value[2].threshold
              /\ result.value[2].threshold = threshold(configured_level)[2]
        /\ (configured_level = "INFO" /\ verbosity.info_threshold = default_info_threshold) =>
              /\ result.events = default_info_threshold + 1 => result.value # NoneV
              /\ result.events = default_info_threshold => result.value = NoneV

\* check_verbosity() returned a warning at the 51st event of a mix of levels,
\* level INFO with the default threshold.
C6_Witness ==
    /\ result.api = "check_verbosity"
    /\ configured_level = "INFO"
    /\ verbosity.info_threshold = default_info_threshold
    /\ result.events = default_info_threshold + 1
    /\ delivered["ERROR"] = 1 /\ delivered["DEBUG"] = 1
    /\ result.value # NoneV

\* C7: with configured level WARN or ERROR, check_verbosity() and
\* check_and_report() return no warning, whatever events were recorded.
C7_NoWarningAtWarnOrError ==
    (result.api \in APIs /\ configured_level \in {"WARN", "ERROR"}) =>
        result.value = NoneV

\* check_and_report() returned None at level WARN after more events than any
\* level with a threshold would let pass at the default info threshold.
C7_Witness ==
    /\ result.api = "check_and_report"
    /\ configured_level = "WARN"
    /\ result.events > default_info_threshold
    /\ delivered["WARN"] >= 1
    /\ result.value = NoneV

\* ------------------------------------------------------------ the fixed run
ScenarioDone == emitted[1] = Scenario.chunks /\ pc[1] = "idle"
\* The numbers of the buffers a file holds.
ChunksIn(n) ==
    UNION {DataOf(n)[j][2] .. (DataOf(n)[j][2] + DataOf(n)[j][5] - 1) : j \in DOMAIN DataOf(n)}
\* The buffers that lie beyond the first max size of data written.
Overflow == {k \in 1..Scenario.chunks : k * Scenario.chunk > Limit}

\* C9 as stated: the run causes exactly one rotation, leaves the active file
\* no larger than 1 MB and exactly one backup, .1, which contains the overflow.
C9_BackupHoldsOverflow ==
    ScenarioDone =>
        /\ rot_started = 1 /\ rot_ok = 1
        /\ FileSize(0) <= Limit
        /\ Backups = {1}
        /\ ChunksIn(1) = Overflow

\* C9: the run causes exactly one rotation, leaves the active file no larger
\* than 1 MB and exactly one backup, .1; .1 holds the first 1 MB written and
\* the active file holds the overflow, the last 0.5 MB.
C9_ActiveHoldsOverflow ==
    ScenarioDone =>
        /\ rot_started = 1 /\ rot_ok = 1
        /\ FileSize(0) <= Limit
        /\ Backups = {1}
        /\ FileSize(1) = Limit
        /\ ChunksIn(1) = (1..Scenario.chunks) \ Overflow
        /\ ChunksIn(0) = Overflow
        /\ FileSize(0) = Cardinality(Overflow) * Scenario.chunk

\* All 1.5 MB are written and a rotation has happened.
C9_Witness ==
    /\ ScenarioDone
    /\ rot_ok = 1
    /\ Exists(1)
    /\ Overflow # {}

\* ------------------------------------------------- the guard and the sinks
\* C11: once the RotatingFileGuard is dropped, however it was obtained, the
\* active file is closed and no event emitted afterwards adds bytes to it.
C11_ReleaseEndsFileLogging ==
    guard.state = "dropped" =>
        /\ current_file = 0
        /\ inodes[guard.file].size = guard.size

\* C12: the console_output flag controls console mirroring: when it is false
\* no event of a file logging session is written to the console sink, and when it is true every event
\* emitted in a file logging session is written to the console sink (and to
\* the file sink).
C12_ConsoleOutputControlsConsole ==
    /\ (~config.console_output /\ session \in FileSessions) => console = 0
    /\ (config.console_output /\ session \in {"build", "pipeline"} /\ AllIdle)
          => console = TotalEmitted

\* C13: when the directory cannot be created or the file cannot be opened,
\* RotatingWriterWrapper::new and build() return the IO error and there is no
\* writer and no guard; init_logging_with_file then installs the console
\* layer and the verbosity layer, without a file layer, and returns no guard:
\* every event is written to the console and counted.
C13_InitFailureFallsBack ==
    /\ session \in {"failed", "console_only"} =>
          /\ io_error
          /\ current_file = 0
          /\ guard = NoGuard
          /\ \A n \in Names : ~Exists(n)
    /\ session = "failed" => layers = {}
    /\ session = "console_only" =>
          /\ {"console", "verbosity"} \subseteq layers
          /\ "file" \notin layers
          /\ console = TotalEmitted
          /\ total_count = TotalEmitted

\* The fallback is in use: events went to the console after a failed setup.
C13_Witness ==
    /\ session = "console_only"
    /\ dir_exists
    /\ TotalEmitted >= 2
    /\ console >= 2

\* ------------------------------------------------------ the limit, reached
\* Thread t's write call takes its step from the size check.
Checks(t) == pc[t] = "lock" /\ pc'[t] # "lock"
LimitReached == config.truncate_on_limit /\ session \in WriterSessions /\ should_rotate

\* C14: in truncate mode, once current_size has reached the limit, every later
\* write of a buffer of n bytes returns Ok(n) and discards the buffer, and the
\* content of the active file and current_size never change again.
C14_LimitReachedAbsorbing ==
    [][ LimitReached =>
          /\ inodes' = inodes
          /\ current_size' = current_size
          /\ \A t \in Threads :
               Checks(t) => /\ pc'[t] = "idle"
                            /\ ret'[t] = <<"Ok", buf[t].rem>> ]_vars

\* ------------------------------------------------------------ the rotation
\* C15: when a rename or delete step of an archive-mode rotation fails, the
\* write call that triggered the rotation does not return an error (it goes
\* on to write the pending bytes).
C15_RotationFailureNotReturned ==
    [][ \A t \in Threads :
          pc[t] \in {"rot_chain", "rot_rename"} =>
             ~(pc'[t] = "idle" /\ ret'[t][1] = "Err") ]_vars

\* C16: current_size always equals the number of bytes written to the open
\* file handle since it was opened: after partial writes, discarded writes,
\* successful rotations and rotations that failed at any step.
C16_SizeIsBytesWritten ==
    current_file # 0 => current_size = inodes[current_file].size

\* A partial write and a successful rotation have happened, and bytes were
\* written to the handle opened by the rotation.
C16_Witness ==
    /\ short_write
    /\ rot_ok >= 1
    /\ AllIdle
    /\ current_file # 0
    /\ current_size > 0

\* C17: in archive mode a write that finds current_size at or above the limit
\* rotates first and then writes its pending bytes into the fresh file: when
\* it has returned n, before the next write call, the active file holds
\* exactly those n bytes, current_size = n, and backup .1 holds what the
\* active file held before the rotation, none of the pending bytes.
C17_PendingBytesInFreshFile ==
    (pre_rot.file # 0 /\ owner = 0 /\ ret[1][1] = "Ok" /\ rot_ok >= 1 /\ current_file # pre_rot.file) =>
        /\ Exists(0) /\ files[0] = current_file
        /\ Len(DataOf(0)) = 1
        /\ DataOf(0)[1][1] = 1 /\ DataOf(0)[1][3] = ret[1][2] /\ DataOf(0)[1][5] = 1
        /\ DataOf(0)[1][2] \in {emitted[1] - 1, emitted[1]}
        /\ FileSize(0) = ret[1][2]
        /\ current_size = ret[1][2]
        /\ ret[1][2] > 0
        /\ Exists(1) /\ files[1] = pre_rot.file /\ DataOf(1) = pre_rot.data

\* A write has rotated a file with content away and put its bytes in the fresh file.
C17_Witness ==
    /\ pre_rot.file # 0 /\ pre_rot.data # << >>
    /\ owner = 0
    /\ ret[1][1] = "Ok"
    /\ current_file # pre_rot.file
    /\ current_size > 0

\* ----------------------------------------------------------------- the lock
\* Thread t is inside RotatingWriter::write, past the size check.
InWrite(t) == pc[t] \in {"rot_chain", "rot_rename", "rot_open", "rot_link", "file_write", "relock"}

\* C18: the rotation decision, the rename chain, the reopening and the write
\* of the pending bytes of one write call happen under one hold of the mutex:
\* from the size check to the return the calling thread holds it, and no step
\* of another thread changes the directory, a file, the open handle, the
\* size count or the latest pointer in between.
C18_OneHoldPerWrite ==
    [][ \A t \in Threads :
          InWrite(t) =>
             /\ owner = t
             /\ \A u \in Threads \ {t} :
                  pc'[u] # pc[u] =>
                     UNCHANGED <<files, inodes, current_file, current_size, latest>> ]_vars

\* A rotation is half-applied (the active file is renamed, not yet reopened)
\* while another thread waits for the mutex with a line to write.
C18_Witness ==
    /\ \E t \in Threads : pc[t] = "rot_open" /\ owner = t /\ ~Exists(0)
    /\ \E u \in Threads : pc[u] = "lock" /\ buf[u].rem > 0

\* C19: in truncate mode the rotation-skipped warning is emitted a single time
\* per writer session, however many writes are discarded (stated for a writer
\* used through its handle, in the runs in which no OS call misbehaved, so
\* that no other warning is emitted).
C19_SingleSkipWarning ==
    (config.truncate_on_limit /\ session = "wrapper" /\ faults = MaxFaults)
        => warned <= 1

\* ------------------------------------------------------ the configured level
LevelWords ==
    << <<Str_trace, "TRACE">>, <<Str_debug, "DEBUG">>, <<Str_info, "INFO">>,
       <<Str_warn, "WARN">>, <<Str_error, "ERROR">> >>
\* The first of trace, debug, info, warn, error that occurs in str; INFO when none does.
FirstLevelIn(str) ==
    LET hits == {j \in 1..Len(LevelWords) : contains(to_lowercase(str), LevelWords[j][1])}
    IN  IF hits = {} THEN "INFO"
        ELSE LevelWords[CHOOSE j \in hits : \A h \in hits : j <= h][2]

\* C20: the configured level of the layer is fixed at its construction and is
\* derived from the active filter directive string (RUST_LOG when set,
\* otherwise the default_level given to init_logging): the first of trace,
\* debug, info, warn, error occurring in it, INFO when none occurs.
C20_LevelFromActiveDirective ==
    session = "console" => configured_level = FirstLevelIn(ActiveDirective)

\* ------------------------------------------------------------- the filter
\* The active severity filter lets level l through.
PassesFilter(l) == LevelNo(l) <= max_level(ActiveDirective)
\* The step taken is the program emitting an event of level l.
Emits(l) == offered'[l] = offered[l] + 1

\* C21: in a pipeline built by init_logging or init_logging_with_file, an
\* event rejected by the active severity filter changes no verbosity counter
\* and adds nothing to the file or console sink, while an admitted event is
\* written to the console, handed to the file layer where there is one, and
\* increments exactly one counter, the one of its own severity: whenever no
\* event is in flight each counter equals the number of admitted events of
\* its level, and no step changes more than one counter or by more than one.
C21_FilterGatesSinksAndCounters ==
    /\ [][ \A l \in Levels :
             (Emits(l) /\ "env_filter" \in layers) =>
                IF PassesFilter(l)
                THEN /\ console' = console + 1
                     /\ IF "file" \in layers
                        THEN /\ counts' = counts
                             /\ \E t \in Threads :
                                  /\ pc[t] = "idle" /\ pc'[t] = "lock"
                                  /\ buf'[t].level = l /\ buf'[t].rem > 0
                        ELSE counts' = [counts EXCEPT ![l] = @ + 1]
                ELSE UNCHANGED <<counts, console, files, inodes, current_size, pc, buf>> ]_vars
    /\ [][ \A l \in Levels :
             counts'[l] # counts[l] => counts' = [counts EXCEPT ![l] = @ + 1] ]_vars
    /\ []( ("env_filter" \in layers /\ AllIdle) =>
             \A l \in Levels : counts[l] = (IF PassesFilter(l) THEN offered[l] ELSE 0) )

\* With a file layer installed, events were rejected and events of two
\* levels were admitted, counted and written.
C21_Witness ==
    /\ session = "pipeline"
    /\ AllIdle
    /\ \E l \in Levels : ~PassesFilter(l) /\ offered[l] >= 1
    /\ counts["ERROR"] >= 1 /\ counts["WARN"] >= 1
    /\ Exists(0) /\ FileSize(0) > 0

\* ------------------------------------------------------------ the counters
\* C22: each of the five severity counters is non-decreasing over the life of
\* a VerbosityCheckLayer and its clones (which share the counters): on_event
\* raises exactly one counter by one, and total_count, counts_by_level,
\* check_verbosity and check_and_report leave every counter unchanged;
\* nothing resets or decrements a counter.
C22_CountersOnlyGrow ==
    [][ /\ \A l \in Levels : counts'[l] >= counts[l]
        /\ delivered' # delivered =>
              \E l \in Levels : /\ delivered' = [delivered EXCEPT ![l] = @ + 1]
                                /\ counts' = [counts EXCEPT ![l] = @ + 1]
        /\ delivered' = delivered => counts' = counts ]_vars

\* Events of every level were counted and check_and_report() has just
\* returned its report.
C22_Witness ==
    /\ result.api = "check_and_report"
    /\ result.value # NoneV
    /\ \A l \in Levels : counts[l] >= 1
    /\ counts["INFO"] >= 2

\* ------------------------------------------------------------- the sessions
\* C23: every writer initialization opens an active file path that no
\* earlier initialization used (same directory and base file name), so opening
\* a new session never truncates or overwrites the log file of an earlier
\* session, however close in time the two initializations are.
C23_NewSessionNewPath ==
    \A j \in 1..Len(earlier) :
        /\ session \in FileSessions =>
              /\ earlier[j].stamp # timestamp(now)
              /\ current_file # earlier[j].file
        /\ inodes[earlier[j].file].data = earlier[j].data

\* ----------------------------------------------------------- the rename chain
\* The step taken renames the file at name i to name j.
Renames(i, j) == files[i] # 0 /\ files'[j] = files[i] /\ files'[i] = 0

\* C24: during an archive-mode rotation no rename has an existing file as its
\* destination: every backup .i is moved to .(i+1) or deleted before anything
\* is renamed onto .i, including before the active file is renamed to .1, for
\* every max_files value.
C24_NoRenameOntoExistingFile ==
    [][ \A i \in Names, j \in Names :
          (i # j /\ Renames(i, j)) => files[j] = 0 ]_vars

HasLabel ==
    /\ formatted[1] = event.level
    /\ \E p \in DOMAIN formatted : formatted[p] = ": "
\* The formatted line has file:line within its prefix.
HasLocation ==
    /\ event.file # NoneS /\ event.line # NoneS
    /\ \E p \in DOMAIN formatted, q \in DOMAIN formatted :
          /\ formatted[q] = ": " /\ p + 2 < q
          /\ formatted[p] = event.file[2]
          /\ formatted[p + 1] = ":"
          /\ formatted[p + 2] = event.line[2]

C27_NoSelfDeadlock ==
    \A t \in Threads : ~(owner = t /\ pc[t] = "relock")

\* ------------------------------------------------------------- the warning
\* C28: every VerbosityWarning returned by check_verbosity(), also while
\* other threads record events, is consistent in itself: its total_count is
\* counts.error + counts.warn + counts.info + counts.debug + counts.trace, and
\* its total_count is strictly greater than its threshold.
C28_WarningConsistent ==
    (result.api = "check_verbosity" /\ result.value # NoneV) =>
        LET w == result.value[2]
        IN  /\ w.total_count = w.counts.error + w.counts.warn + w.counts.info
                               + w.counts.debug + w.counts.trace
            /\ w.total_count > w.threshold

\* ------------------------------------------------------- the backup numbers
Min(a, b) == IF a <= b THEN a ELSE b
\* An archive-mode writer with max_files >= 2, between two write calls.
ArchiveAtRest ==
    /\ session \in WriterSessions
    /\ ~config.truncate_on_limit
    /\ config.max_files >= 2
    /\ owner = 0

Appends(t) == pc[t] = "file_write" /\ inodes' # inodes
\* The data of the file the handle is open on, and the last piece written to it.
OpenData == inodes[current_file].data
LastPiece == OpenData[Len(OpenData)]

\* C30 as stated: in both modes bytes are appended to the active file only by
\* a write call that found current_size strictly below
\* max_size_mb * 1024 * 1024 (possibly right after a rotation reset it to
\* zero); hence the active file's size is always less than the limit plus the
\* length of the last buffer written to it.
C30_AppendOnlyBelowLimit ==
    /\ [][ \A t \in Threads : Appends(t) => current_size < Limit ]_vars
    /\ []( (current_file # 0 /\ OpenData # << >>) =>
             inodes[current_file].size < Limit + LastPiece[4] )

\* C30 amended: in both modes bytes are appended to the active file only by a
\* write call that found current_size strictly below the limit, or that
\* rotated first and so writes at size zero; hence the active file's size is
\* at most the limit plus the number of bytes of the last write to it, and
\* less than that when the limit is not zero.
C30_AppendBelowLimitOrAfterRotation ==
    /\ [][ \A t \in Threads :
             Appends(t) => \/ current_size < Limit
                           \/ current_size = 0 /\ pre_rot.file # 0 ]_vars
    /\ []( (current_file # 0 /\ OpenData # << >>) =>
             /\ inodes[current_file].size <= Limit + LastPiece[3]
             /\ Limit > 0 => inodes[current_file].size < Limit + LastPiece[3] )

\* In archive mode a write that started below a limit of 1 MB has taken the
\* active file beyond it.
C30_Witness ==
    /\ session \in WriterSessions
    /\ ~config.truncate_on_limit
    /\ Limit > 0
    /\ current_file # 0
    /\ inodes[current_file].size > Limit
    /\ current_size = inodes[current_file].size
    /\ owner = 0

====
